---- MODULE Spec2Model ----
(***************************************************************************)
(* Model of src/app.py: the TradingView webhook bot.                       *)
(*                                                                         *)
(* A webhook handler (producer) parses an inbound payload and puts a       *)
(* signal on signal_queue; the trading loop (single consumer) takes one    *)
(* signal at a time, fetches the price and the balances, applies the       *)
(* alternating BUY/SELL rule, executes the trade (simulated or through the *)
(* exchange) and accumulates the profit of each sell->buy cycle.           *)
(*                                                                         *)
(* Numbers.  Python floats are modelled as exact fixed-point integers:     *)
(* prices and quote-currency amounts are in hundredths (price 50 is 0.50,  *)
(* quote balance 50000 is 500.00), base-currency amounts are whole units.  *)
(* Strings are sequences of one-character strings, so that upper() and     *)
(* strip() are computed and not assumed.                                   *)
(***************************************************************************)
EXTENDS Integers, Sequences, FiniteSets, TLC

(***************************************************************************)
(* Bounds of the model.                                                    *)
(***************************************************************************)
\* Number of signals the webhook may put on the queue in one behaviour.
MaxSignals == 3
MaxCalls == 2
MaxCycleTrades == 4
MantissaBits == 10

(***************************************************************************)
(* Program constants.                                                      *)
(***************************************************************************)
\* FIXED_AMOUNT = 1000 (base currency units), passed as fixed_amount.
FIXED_AMOUNT == 1000

\* Python's None for an optional number (last_sold_amount, last_sell_price,
\* a failed price fetch).  Amounts and prices are never negative, so -1 is
\* free to stand for it.
None == -1

\* Truth value of an optional number in `if x:` -- None and 0 are both false.
Truthy(x) == x # None /\ x # 0

BUY == <<"B", "U", "Y">>
SELL == <<"S", "E", "L", "L">>
LONG == <<"L", "O", "N", "G">>
SHORT == <<"S", "H", "O", "R", "T">>

(***************************************************************************)
(* Strings: str.upper() and str.strip().                                   *)
(***************************************************************************)
LowerCase == <<"a", "b", "c", "d", "e", "f", "g", "h", "i", "j", "k", "l", "m",
               "n", "o", "p", "q", "r", "s", "t", "u", "v", "w", "x", "y", "z">>
UpperCase == <<"A", "B", "C", "D", "E", "F", "G", "H", "I", "J", "K", "L", "M",
               "N", "O", "P", "Q", "R", "S", "T", "U", "V", "W", "X", "Y", "Z">>

UpperChar(c) ==
    IF \E i \in 1..Len(LowerCase) : LowerCase[i] = c
    THEN UpperCase[CHOOSE i \in 1..Len(LowerCase) : LowerCase[i] = c]
    ELSE c

StrUpper(s) == [i \in 1..Len(s) |-> UpperChar(s[i])]

IsSpace(c) == c \in {" ", "\t", "\n", "\r"}

RECURSIVE LStrip(_)
LStrip(s) == IF s # <<>> /\ IsSpace(Head(s)) THEN LStrip(Tail(s)) ELSE s

RECURSIVE RStrip(_)
RStrip(s) ==
    IF s # <<>> /\ IsSpace(s[Len(s)]) THEN RStrip(SubSeq(s, 1, Len(s) - 1)) ELSE s

StrStrip(s) == RStrip(LStrip(s))

(***************************************************************************)
(* Payloads.  A JSON object is a function from its keys to values; a value *)
(* is tagged as a string or not (numbers, null, nested values), because    *)
(* .upper() exists only on strings.                                        *)
(***************************************************************************)
StrV(s) == [str |-> TRUE, s |-> s]
NonStrV == [str |-> FALSE, s |-> <<>>]

EmptyDict == [k \in {} |-> NonStrV]

DictData(obj) == [dict |-> TRUE, obj |-> obj, text |-> <<>>]
TextData(s) == [dict |-> FALSE, obj |-> EmptyDict, text |-> s]

\* Texts of the JSON documents among the inputs.
TxtJsonActionBuy ==
    <<"{", "\"", "a", "c", "t", "i", "o", "n", "\"", ":", "\"", "b", "u", "y", "\"", "}">>
TxtJsonSignalLong ==
    <<"{", "\"", "s", "i", "g", "n", "a", "l", "\"", ":", " ", "\"", "L", "o", "n", "g", "\"", "}">>
TxtJsonNumber == <<"4", "2">>
TxtJsonEmptyObj == <<"{", "}">>

\* json.loads on the texts the model feeds it: ok is FALSE when it raises,
\* dict tells whether the document is an object.
JsonLoads(s) ==
    CASE s = TxtJsonActionBuy ->
            [ok |-> TRUE, dict |-> TRUE, obj |-> [action |-> StrV(<<"b", "u", "y">>)]]
      [] s = TxtJsonSignalLong ->
            [ok |-> TRUE, dict |-> TRUE, obj |-> [signal |-> StrV(<<"L", "o", "n", "g">>)]]
      [] s = TxtJsonEmptyObj ->
            [ok |-> TRUE, dict |-> TRUE, obj |-> EmptyDict]
      [] s = TxtJsonNumber ->
            [ok |-> TRUE, dict |-> FALSE, obj |-> EmptyDict]
      [] OTHER ->
            [ok |-> FALSE, dict |-> FALSE, obj |-> EmptyDict]

\* dict.get(key, '')
DictGet(obj, key) == IF key \in DOMAIN obj THEN obj[key] ELSE StrV(<<>>)

\* The structured path: data.get('action', '').upper(), falling back to
\* data.get('signal', '').upper() when that is empty.  raised is TRUE when
\* .upper() is called on a value that is not a string (AttributeError).
DictSignalType(obj) ==
    LET a == DictGet(obj, "action")
        g == DictGet(obj, "signal")
    IN  IF ~a.str THEN [raised |-> TRUE, signal_type |-> <<>>]
        ELSE IF StrUpper(a.s) # <<>> THEN [raised |-> FALSE, signal_type |-> StrUpper(a.s)]
        ELSE IF ~g.str THEN [raised |-> TRUE, signal_type |-> <<>>]
        ELSE [raised |-> FALSE, signal_type |-> StrUpper(g.s)]

\* The plain-text path: upper().strip(), the BUY/LONG and SELL/SHORT tokens,
\* else json.loads of the text and the structured path on an object; every
\* exception of that attempt is swallowed (bare except).
TextSignalType(text) ==
    LET data_upper == StrStrip(StrUpper(text))
        parsed == JsonLoads(text)
        d == DictSignalType(parsed.obj)
    IN  IF data_upper \in {BUY, LONG} THEN [raised |-> FALSE, signal_type |-> BUY]
        ELSE IF data_upper \in {SELL, SHORT} THEN [raised |-> FALSE, signal_type |-> SELL]
        ELSE IF parsed.ok /\ parsed.dict /\ ~d.raised THEN d
        ELSE [raised |-> FALSE, signal_type |-> <<>>]

\* The signal type process_tradingview_signal extracts from data; the empty
\* string stands for both None and '' (only its truth value is used).
ExtractSignalType(data) ==
    IF data.dict THEN DictSignalType(data.obj) ELSE TextSignalType(data.text)

\* Whether process_tradingview_signal accepts data (puts a signal, returns True).
Accepted(data) ==
    LET r == ExtractSignalType(data) IN ~r.raised /\ r.signal_type # <<>>

(***************************************************************************)
(* Inbound webhook requests: json is what request.get_json() yields (the   *)
(* empty object when there is none), raw the request body as text.         *)
(* refused is TRUE when get_json() raises instead (a body that is not      *)
(* JSON under a JSON content type; any body without one under a Flask that *)
(* answers 415): webhook() catches it and answers success: False.          *)
(***************************************************************************)
JsonRequest(obj) == [json |-> obj, raw |-> <<>>, refused |-> FALSE]
TextRequest(s) == [json |-> EmptyDict, raw |-> s, refused |-> FALSE]
RefusedRequest(s) == [json |-> EmptyDict, raw |-> s, refused |-> TRUE]

Requests ==
    { JsonRequest([action |-> StrV(<<"b", "u", "y">>)]),
      JsonRequest([action |-> StrV(SELL)]),
      JsonRequest([action |-> StrV(<<"l", "o", "n", "g">>)]),
      JsonRequest([signal |-> StrV(<<"s", "e", "l", "l">>)]),
      JsonRequest([signal |-> StrV(<<"l", "o", "n", "g">>)]),
      JsonRequest([action |-> StrV(<<>>), signal |-> StrV(<<"l", "o", "n", "g">>)]),
      JsonRequest([action |-> StrV(<<"h", "o", "l", "d">>)]),
      JsonRequest([action |-> NonStrV]),
      JsonRequest([note |-> StrV(BUY)]),
      TextRequest(BUY),
      TextRequest(<<"l", "o", "n", "g">>),
      TextRequest(<<" ", "s", "e", "l", "l", "\n">>),
      TextRequest(<<"S", "h", "o", "r", "t">>),
      TextRequest(<<"h", "e", "l", "l", "o">>),
      TextRequest(<<>>),
      TextRequest(TxtJsonActionBuy),
      TextRequest(TxtJsonSignalLong),
      TextRequest(TxtJsonNumber),
      TextRequest(TxtJsonEmptyObj),
      RefusedRequest(BUY) }

\* The requests of the full system: one per outcome of the parser that the
\* trading loop can tell apart (BUY, SELL, another signal type, rejected).
CoreRequests ==
    { JsonRequest([action |-> StrV(<<"b", "u", "y">>)]),
      TextRequest(<<" ", "s", "e", "l", "l", "\n">>),
      JsonRequest([action |-> StrV(<<"l", "o", "n", "g">>)]),
      TextRequest(<<"h", "e", "l", "l", "o">>) }

\* The data webhook() hands to process_tradingview_signal: the parsed JSON,
\* or the stripped body text when there is none.
WebhookData(req) ==
    IF req.json # EmptyDict THEN DictData(req.json) ELSE TextData(StrStrip(req.raw))

(***************************************************************************)
(* The exchange as the bot sees it.                                        *)
(***************************************************************************)
\* ticker['last'] values (hundredths); a failed fetch yields None.
Prices == {0, 40, 50}

\* Free balances the exchange reports in real mode (a failed fetch yields 0).
RealBaseBalances == {0, 500, 2000}
RealQuoteBalances == {0, 60000}

Min(a, b) == IF a < b THEN a ELSE b
Abs(x) == IF x < 0 THEN 0 - x ELSE x

(***************************************************************************)
(* State.                                                                  *)
(***************************************************************************)
VARIABLES
    demo_mode,          \* self.demo_mode
    signal_queue,       \* self.signal_queue: the signals put and not yet got
    unfinished_tasks,   \* Queue.unfinished_tasks: puts minus task_done calls
    last_action,        \* self.last_action
    last_sold_amount,   \* self.last_sold_amount
    demo_balance,       \* self.demo_balance: [base, quote]
    total_profit,       \* self.total_profit
    trades,             \* self.trades
    loop_pc,            \* position of run_trading_loop in its iteration
    signal_info,        \* run_trading_loop: the signal being processed
    current_price,      \* run_trading_loop: current_price
    base_balance,       \* run_trading_loop: base_balance
    quote_balance,      \* run_trading_loop: quote_balance
    last_sell_price,    \* run_trading_loop: last_sell_price
    webhook_reply,      \* the last webhook call: its data, signal type, reply
    n_put,              \* history: signals put on the queue so far
    n_got,              \* history: signals the loop has taken so far
    n_finished,         \* history: signals whose processing has ended
    n_buy,              \* history: BUY trades executed so far
    n_sell,             \* history: SELL trades executed so far
    cur,                \* history: the signal in flight (or the last one), the
                        \* state it was taken in (pre), its outcome and the
                        \* amount handed to execute_trade for it
    prev,               \* history: the signal processed before it
    halt,               \* run_trading_loop: the except clause that ended the
                        \* loop (by), and where the loop was then (at)
    status_info,        \* status(): position of a /status call and what it
                        \* has read so far
    status_seen,        \* history: the engine values that held at some point
                        \* of the /status call in progress
    call                \* the last direct call of execute_trade: arguments,
                        \* the state it was made in, its result

engine == <<last_action, last_sold_amount, last_sell_price, demo_balance, trades,
            total_profit>>
queue == <<signal_queue, unfinished_tasks, n_put>>
locals == <<loop_pc, signal_info, current_price, base_balance, quote_balance>>
history == <<n_got, n_finished, n_buy, n_sell, cur, prev>>
aside == <<halt, status_info, call>>
vars == <<demo_mode, engine, queue, locals, webhook_reply, history, aside, status_seen>>

NoSignal == [type |-> <<>>, seq |-> 0]
\* The engine and ledger state together, as one value.
EngineState ==
    [last_action |-> last_action, last_sold_amount |-> last_sold_amount,
     last_sell_price |-> last_sell_price, balance |-> demo_balance,
     trades |-> trades, total_profit |-> total_profit,
     n_buy |-> n_buy, n_sell |-> n_sell]

NoOutcome == [type |-> <<>>, la |-> <<>>, outcome |-> "none"]

\* The trading loop is running.
NoHalt == [by |-> "none", at |-> "none"]

\* No /status call is in progress.
NoStatus ==
    [pc |-> "idle", last_action |-> <<>>, base_balance |-> None,
     quote_balance |-> None, total_profit |-> None]

\* What /status reports of the engine (lines 205-208), as it is now.
StatusView ==
    [last_action |-> last_action, base_balance |-> demo_balance.base,
     quote_balance |-> demo_balance.quote, total_profit |-> total_profit]

\* The values seen by the /status call in progress, with view added.
Observed(info, seen, view) ==
    IF info.pc \in {"idle", "done"} THEN seen ELSE seen \cup {view}

\* No direct call of execute_trade has been made; n counts the calls.
NoCall ==
    [side |-> "none", amount |-> 0, price |-> 0, ok |-> FALSE,
     balance |-> [base |-> 0, quote |-> 0], trades |-> <<>>, n |-> 0]

\* The state __init__ leaves (lines 114-128), in either mode, with the
\* trading loop about to wait for its first signal.
Init ==
    /\ demo_mode \in BOOLEAN
    /\ signal_queue = <<>>
    /\ unfinished_tasks = 0
    /\ last_action = BUY
    /\ last_sold_amount = None
    /\ demo_balance = [base |-> FIXED_AMOUNT, quote |-> 0]
    /\ total_profit = 0
    /\ trades = <<>>
    /\ loop_pc = "get"
    /\ signal_info = NoSignal
    /\ current_price = None
    /\ base_balance = None
    /\ quote_balance = None
    /\ last_sell_price = None
    /\ webhook_reply = [data |-> TextData(<<>>), signal_type |-> <<>>, success |-> FALSE]
    /\ n_put = 0
    /\ n_got = 0
    /\ n_finished = 0
    /\ n_buy = 0
    /\ n_sell = 0
    /\ cur = [type |-> <<>>, la |-> <<>>, outcome |-> "none", amount |-> None,
              pre |-> EngineState]
    /\ prev = NoOutcome
    /\ halt = NoHalt
    /\ status_info = NoStatus
    /\ status_seen = {}
    /\ call = NoCall

(***************************************************************************)
(* Producer: POST /webhook -> process_tradingview_signal.                  *)
(***************************************************************************)
\* Faulty variant of QueuePut (C4 must detect it): a put on a queue that is
\* not empty is dropped.
QueuePutDropWhenBusy(q, item) == IF q # <<>> THEN q ELSE Append(q, item)

\* Queue.put: append at the tail.
QueuePut(q, item) == Append(q, item)

\* Faulty variant of WebhookAck (C11 must detect it): every request is
\* answered success: True.
WebhookAckAlways(signal_processed) == TRUE

\* The reply of webhook() (lines 164-167, 177-180): success is what
\* process_tradingview_signal returned.
WebhookAck(signal_processed) == signal_processed

\* Faulty variant of Webhook (C17 must detect it): the receiver itself
\* records the signal as the last action.
WebhookSetsLastAction(req) ==
    LET data == WebhookData(req)
        r == ExtractSignalType(data)
    IN  /\ ~req.refused
        /\ Accepted(data)
        /\ n_put < MaxSignals
        /\ signal_queue' =
               QueuePut(signal_queue, [type |-> r.signal_type, seq |-> n_put + 1])
        /\ unfinished_tasks' = unfinished_tasks + 1
        /\ n_put' = n_put + 1
        /\ webhook_reply' = [data |-> data, signal_type |-> r.signal_type,
                             success |-> TRUE]
        /\ last_action' = r.signal_type
        /\ UNCHANGED <<aside, status_seen, demo_mode, last_sold_amount, last_sell_price,
                       demo_balance, trades, total_profit, locals, history>>

\* One webhook call.  A payload with a signal type is put on the queue and
\* answered success: True; any other payload changes nothing and is
\* answered success: False, and so is a request get_json() refuses, for
\* which process_tradingview_signal is not called (lines 182-187).
Webhook(req) ==
    LET data == WebhookData(req)
        r == ExtractSignalType(data)
    IN  /\ IF req.refused
           THEN /\ UNCHANGED queue
                /\ webhook_reply' = [data |-> TextData(<<>>), signal_type |-> <<>>,
                                     success |-> FALSE]
           ELSE /\ IF Accepted(data)
                   THEN /\ n_put < MaxSignals
                        /\ signal_queue' =
                               QueuePut(signal_queue,
                                        [type |-> r.signal_type, seq |-> n_put + 1])
                        /\ unfinished_tasks' = unfinished_tasks + 1
                        /\ n_put' = n_put + 1
                   ELSE UNCHANGED queue
                /\ webhook_reply' = [data |-> data, signal_type |-> r.signal_type,
                                     success |-> WebhookAck(Accepted(data))]
        /\ UNCHANGED <<aside, status_seen, demo_mode, engine, locals, history>>

(***************************************************************************)
(* Ledger: execute_trade and calculate_profit.                             *)
(***************************************************************************)
TradeRecord(side, price, amount, cost) ==
    [side |-> side, price |-> price, amount |-> amount, cost |-> cost, fee |-> 0]

\* Faulty variant of DemoBuy (C7 must detect it): the base balance is
\* debited instead of credited.
DemoBuyDebitsBase(bal, amount, price) ==
    LET cost == amount * price
    IN  IF cost > bal.quote
        THEN [ok |-> FALSE, balance |-> bal, trade |-> <<>>]
        ELSE [ok |-> TRUE,
              balance |-> [base |-> bal.base - amount, quote |-> bal.quote - cost],
              trade |-> <<TradeRecord(BUY, price, amount, cost)>>]

\* Simulated buy (lines 314-332): rejected when the cost exceeds the quote
\* balance, else quote is debited by the cost and base credited by amount.
DemoBuy(bal, amount, price) ==
    LET cost == amount * price
    IN  IF cost > bal.quote
        THEN [ok |-> FALSE, balance |-> bal, trade |-> <<>>]
        ELSE [ok |-> TRUE,
              balance |-> [base |-> bal.base + amount, quote |-> bal.quote - cost],
              trade |-> <<TradeRecord(BUY, price, amount, cost)>>]

\* Faulty variant of DemoSell (C20 must detect it): the base balance is not
\* checked.
DemoSellUnchecked(bal, amount, price) ==
    LET revenue == amount * price
    IN  [ok |-> TRUE,
         balance |-> [base |-> bal.base - amount, quote |-> bal.quote + revenue],
         trade |-> <<TradeRecord(SELL, price, amount, revenue)>>]

\* Simulated sell (lines 334-352): rejected when amount exceeds the base
\* balance, else base is debited by amount and quote credited by the revenue.
DemoSell(bal, amount, price) ==
    LET revenue == amount * price
    IN  IF amount > bal.base
        THEN [ok |-> FALSE, balance |-> bal, trade |-> <<>>]
        ELSE [ok |-> TRUE,
              balance |-> [base |-> bal.base - amount, quote |-> bal.quote + revenue],
              trade |-> <<TradeRecord(SELL, price, amount, revenue)>>]

\* Real order (lines 362-388): the exchange accepts the market order
\* (order_ok) or raises, which execute_trade turns into None; neither
\* demo_balance nor trades is touched.
RealOrder(bal, order_ok) == [ok |-> order_ok, balance |-> bal, trade |-> <<>>]

\* execute_trade(side, amount, price): ok is FALSE for a None result;
\* balance is demo_balance afterwards and trade what is appended to trades.
ExecuteTrade(demo, bal, side, amount, price, order_ok) ==
    IF demo
    THEN IF side = "buy" THEN DemoBuy(bal, amount, price) ELSE DemoSell(bal, amount, price)
    ELSE RealOrder(bal, order_ok)

\* Faulty variant of CalculateProfit (C9 must detect it): the two legs are
\* swapped.
CalculateProfitSwapped(sell_price, buy_price, amount) ==
    amount * buy_price - amount * sell_price

\* calculate_profit(sell_price, buy_price, amount): revenue of the sell leg
\* minus cost of the buy leg.
CalculateProfit(sell_price, buy_price, amount) ==
    LET sell_revenue == amount * sell_price
        buy_cost == amount * buy_price
    IN  sell_revenue - buy_cost

\* The answers an exchange order can get: none is placed in demo mode.
OrderAnswers == IF demo_mode THEN {TRUE} ELSE BOOLEAN

(***************************************************************************)
(* Consumer: run_trading_loop, one action per step of an iteration.        *)
(***************************************************************************)
\* Faulty variant of QueueGet (C3 must detect it): the newest item is taken.
QueueGetLifo(q) == [item |-> q[Len(q)], rest |-> SubSeq(q, 1, Len(q) - 1)]

\* Queue.get: the item at the head, and the queue without it.
QueueGet(q) == [item |-> Head(q), rest |-> Tail(q)]

\* signal_queue.get(timeout=1) returning a signal (line 443).  With the
\* queue empty the call times out and the loop tries again: no change.
LoopGet ==
    /\ loop_pc = "get"
    /\ signal_queue # <<>>
    /\ signal_info' = QueueGet(signal_queue).item
    /\ signal_queue' = QueueGet(signal_queue).rest
    /\ loop_pc' = "price"
    /\ n_got' = n_got + 1
    /\ prev' = [type |-> cur.type, la |-> cur.la, outcome |-> cur.outcome]
    /\ cur' = [type |-> QueueGet(signal_queue).item.type, la |-> last_action,
               outcome |-> "pending", amount |-> None, pre |-> EngineState]
    /\ UNCHANGED <<aside, status_seen, demo_mode, engine, unfinished_tasks, n_put, current_price,
                   base_balance, quote_balance, webhook_reply, n_finished, n_buy, n_sell>>

\* Faulty variant of PriceUnavailable (C12 must detect it): a failed fetch
\* is taken for a price.
PriceUnavailableNever(p) == FALSE

\* `if current_price is None` (line 451).
PriceUnavailable(p) == p = None

\* Faulty variant of AfterNoPrice (C13 must detect it): the loop ends.
AfterNoPriceStop == "stopped"

\* `continue` (line 453): the loop goes back to signal_queue.get.
AfterNoPrice == "get"

\* get_current_price() (lines 450-453): a price, or None when the fetch
\* fails; on None the signal is skipped with `continue` and the loop is
\* back at get.
LoopFetchPrice ==
    /\ loop_pc = "price"
    /\ \E p \in Prices \cup {None} :
          /\ current_price' = p
          /\ IF PriceUnavailable(p)
             THEN /\ loop_pc' = AfterNoPrice
                  /\ signal_info' = NoSignal
                  /\ n_finished' = n_finished + 1
                  /\ cur' = [cur EXCEPT !.outcome = "no_price"]
             ELSE /\ loop_pc' = "balance"
                  /\ UNCHANGED <<signal_info, n_finished, cur>>
    /\ UNCHANGED <<aside, status_seen, demo_mode, engine, queue, base_balance, quote_balance,
                   webhook_reply, n_got, n_buy, n_sell, prev>>

\* get_balance(currency) (lines 289-301): demo_balance in demo mode, what
\* the exchange reports in real mode (0 when the fetch fails).
BalancesRead ==
    IF demo_mode
    THEN {demo_balance}
    ELSE [base : RealBaseBalances, quote : RealQuoteBalances]

LoopFetchBalances ==
    /\ loop_pc = "balance"
    /\ \E b \in BalancesRead :
          /\ base_balance' = b.base
          /\ quote_balance' = b.quote
    /\ loop_pc' = "trade"
    /\ UNCHANGED <<aside, status_seen, demo_mode, engine, queue, signal_info, current_price,
                   webhook_reply, history>>

\* Faulty variants of the two guards below (C5 and C1 must detect them):
\* the last action is not looked at.
BuyAfterSellAnyState(signal_type, la) == signal_type = BUY
SellAfterBuyAnyState(signal_type, la) == signal_type = SELL

\* The two actionable combinations of the alternating pattern (465, 487).
BuyAfterSell(signal_type, la) == signal_type = BUY /\ la = SELL
SellAfterBuy(signal_type, la) == signal_type = SELL /\ la = BUY

\* Faulty variant of SellAmount (C19 must detect it): the fixed amount is
\* sold whatever the base balance.
SellAmountFixed(fixed_amount, base) == fixed_amount

\* sell_amount = min(self.fixed_amount, base_balance) (line 492)
SellAmount(fixed_amount, base) == Min(fixed_amount, base)

\* Faulty variant of SellPossible (C22 must detect it): an amount of 0 is
\* sold too.
SellPossibleAlways(sell_amount) == TRUE

\* `if sell_amount > 0` (line 494).
SellPossible(sell_amount) == sell_amount > 0

\* Whether the quote balance read covers the buy-back (line 474).
CanAfford(quote, buy_cost) == quote >= buy_cost

\* Faulty variant of ActionAfter (C6 must detect it): the result of
\* execute_trade is not looked at.
ActionAfterUnchecked(ok, la, new_action) == new_action

\* `if buy_trade:` / `if sell_trade:` -- last_action moves to the new action
\* only when execute_trade returned a trade (lines 476-477, 496-497).
ActionAfter(ok, la, new_action) == IF ok THEN new_action ELSE la

\* `if last_sell_price:` followed by calculate_profit's
\* self.total_profit += profit (lines 480-481, 421).
ProfitAfterBuy(profit, sell_price, buy_price, amount) ==
    IF Truthy(sell_price)
    THEN profit + CalculateProfit(sell_price, buy_price, amount)
    ELSE profit

NotExecuted(why) ==
    /\ UNCHANGED <<engine, n_buy, n_sell>>
    /\ cur' = [cur EXCEPT !.outcome = why]

\* BUY after SELL (lines 465-485).
BuyBranch ==
    IF Truthy(last_sold_amount)
    THEN LET buy_amount == last_sold_amount
             buy_cost == buy_amount * current_price
         IN  IF CanAfford(quote_balance, buy_cost)
             THEN \E order_ok \in OrderAnswers :
                    LET r == ExecuteTrade(demo_mode, demo_balance, "buy", buy_amount,
                                          current_price, order_ok)
                    IN  /\ demo_balance' = r.balance
                        /\ trades' = trades \o r.trade
                        /\ last_action' = ActionAfter(r.ok, last_action, BUY)
                        /\ total_profit' =
                               IF r.ok
                               THEN ProfitAfterBuy(total_profit, last_sell_price,
                                                   current_price, buy_amount)
                               ELSE total_profit
                        /\ n_buy' = IF r.ok THEN n_buy + 1 ELSE n_buy
                        /\ cur' = [cur EXCEPT
                                     !.outcome = IF r.ok THEN "executed" ELSE "failed",
                                     !.amount = buy_amount]
                        /\ UNCHANGED <<last_sold_amount, last_sell_price, n_sell>>
             ELSE NotExecuted("insufficient")
    ELSE NotExecuted("no_amount")

\* SELL after BUY (lines 487-501).
SellBranch ==
    LET sell_amount == SellAmount(FIXED_AMOUNT, base_balance)
    IN  IF SellPossible(sell_amount)
        THEN \E order_ok \in OrderAnswers :
               LET r == ExecuteTrade(demo_mode, demo_balance, "sell", sell_amount,
                                     current_price, order_ok)
               IN  /\ demo_balance' = r.balance
                   /\ trades' = trades \o r.trade
                   /\ last_action' = ActionAfter(r.ok, last_action, SELL)
                   /\ last_sold_amount' = IF r.ok THEN sell_amount ELSE last_sold_amount
                   /\ last_sell_price' = IF r.ok THEN current_price ELSE last_sell_price
                   /\ n_sell' = IF r.ok THEN n_sell + 1 ELSE n_sell
                   /\ cur' = [cur EXCEPT
                                !.outcome = IF r.ok THEN "executed" ELSE "failed",
                                !.amount = sell_amount]
                   /\ UNCHANGED <<total_profit, n_buy>>
        ELSE NotExecuted("insufficient")

\* The trading logic of one signal (lines 464-509).
LoopTrade ==
    /\ loop_pc = "trade"
    /\ IF BuyAfterSell(signal_info.type, last_action) THEN BuyBranch
       ELSE IF SellAfterBuy(signal_info.type, last_action) THEN SellBranch
       ELSE NotExecuted("ignored")
    /\ loop_pc' = "task_done"
    /\ status_seen' = Observed(status_info, status_seen, StatusView')
    /\ UNCHANGED <<aside, demo_mode, queue, signal_info, current_price, base_balance,
                   quote_balance, webhook_reply, n_got, n_finished, prev>>

\* self.signal_queue.task_done() (line 512), then back to get.
LoopTaskDone ==
    /\ loop_pc = "task_done"
    /\ unfinished_tasks' = unfinished_tasks - 1
    /\ loop_pc' = "get"
    /\ signal_info' = NoSignal
    /\ n_finished' = n_finished + 1
    /\ UNCHANGED <<aside, status_seen, demo_mode, engine, signal_queue, n_put, current_price, base_balance,
                   quote_balance, webhook_reply, n_got, n_buy, n_sell, cur, prev>>

Loop == LoopGet \/ LoopFetchPrice \/ LoopFetchBalances \/ LoopTrade \/ LoopTaskDone

Next ==
    \/ \E req \in CoreRequests : Webhook(req)
    \/ LoopGet
    \/ LoopFetchPrice
    \/ LoopFetchBalances
    \/ LoopTrade
    \/ LoopTaskDone

Spec == Init /\ [][Next]_vars

\* The trading loop runs in the main thread for as long as the process
\* lives: a step of it that can be taken is taken.
FairSpec == Spec /\ WF_vars(Loop)

\* The producer alone, over every request shape: the webhook server runs
\* from the start (run(), lines 535-539) while the trading loop has yet to
\* take a signal.
ParserNext == \E req \in Requests : Webhook(req)

ParserSpec == Init /\ [][ParserNext]_vars

(***************************************************************************)
(* The trading loop statement by statement, with the two events that end   *)
(* it: an exception that no handler inside the loop catches, and the       *)
(* KeyboardInterrupt of a shutdown.  execute_trade and calculate_profit    *)
(* are taken one assignment at a time, since either event can fall between *)
(* any two of them.                                                        *)
(***************************************************************************)
\* The requests of this specification: one BUY and one SELL.
FaultRequests ==
    { JsonRequest([action |-> StrV(<<"b", "u", "y">>)]),
      TextRequest(<<" ", "s", "e", "l", "l", "\n">>) }

inflight == <<signal_info, current_price, base_balance, quote_balance>>
bystanders == <<demo_mode, queue, webhook_reply, status_info, status_seen, call,
                n_got, n_finished, prev>>

\* The arguments of the execute_trade call of the signal in flight
\* (lines 471, 475, 492, 495).
TradeSide == IF signal_info.type = BUY THEN "buy" ELSE "sell"
TradeAmount ==
    IF signal_info.type = BUY
    THEN last_sold_amount
    ELSE SellAmount(FIXED_AMOUNT, base_balance)
TradeCost == TradeAmount * current_price

Attempt(amount) ==
    /\ loop_pc' = "execute"
    /\ cur' = [cur EXCEPT !.amount = amount]

Finish(outcome) ==
    /\ loop_pc' = "task_done"
    /\ cur' = [cur EXCEPT !.outcome = outcome]

\* The branch conditions of the trading logic (lines 465-474, 487-494,
\* 503-509), up to the call of execute_trade.
LoopDecide ==
    /\ loop_pc = "trade"
    /\ IF BuyAfterSell(signal_info.type, last_action)
       THEN IF Truthy(last_sold_amount)
            THEN IF CanAfford(quote_balance, last_sold_amount * current_price)
                 THEN Attempt(last_sold_amount)
                 ELSE Finish("insufficient")
            ELSE Finish("no_amount")
       ELSE IF SellAfterBuy(signal_info.type, last_action)
            THEN IF SellPossible(SellAmount(FIXED_AMOUNT, base_balance))
                 THEN Attempt(SellAmount(FIXED_AMOUNT, base_balance))
                 ELSE Finish("insufficient")
            ELSE Finish("ignored")
    /\ UNCHANGED <<engine, n_buy, n_sell, halt, inflight, bystanders>>

\* execute_trade up to its first effect: the balance check of demo mode
\* (lines 316-318, 335-337), the market order of real mode (lines 366, 375,
\* with `except Exception`, 384-388, when the exchange refuses it).
ExecuteEnter ==
    /\ loop_pc = "execute"
    /\ IF demo_mode
       THEN IF ExecuteTrade(TRUE, demo_balance, TradeSide, TradeAmount,
                            current_price, TRUE).ok
            THEN loop_pc' = "debit" /\ UNCHANGED cur
            ELSE Finish("failed")
       ELSE \E order_ok \in BOOLEAN :
               IF order_ok
               THEN loop_pc' = "log" /\ UNCHANGED cur
               ELSE Finish("failed")
    /\ UNCHANGED <<engine, n_buy, n_sell, halt, inflight, bystanders>>

\* The first balance update (lines 320, 340).
ExecuteDebit ==
    /\ loop_pc = "debit"
    /\ demo_balance' =
          IF TradeSide = "buy"
          THEN [demo_balance EXCEPT !.quote = @ - TradeCost]
          ELSE [demo_balance EXCEPT !.base = @ - TradeAmount]
    /\ loop_pc' = "credit"
    /\ UNCHANGED <<last_action, last_sold_amount, last_sell_price, trades, total_profit,
                   n_buy, n_sell, cur, halt, inflight, bystanders>>

\* The second balance update (lines 321, 341).  TradeAmount is read from
\* base_balance and last_sold_amount, which execute_trade leaves alone.
ExecuteCredit ==
    /\ loop_pc = "credit"
    /\ demo_balance' =
          IF TradeSide = "buy"
          THEN [demo_balance EXCEPT !.base = @ + TradeAmount]
          ELSE [demo_balance EXCEPT !.quote = @ + TradeCost]
    /\ loop_pc' = "append"
    /\ UNCHANGED <<last_action, last_sold_amount, last_sell_price, trades, total_profit,
                   n_buy, n_sell, cur, halt, inflight, bystanders>>

\* self.trades.append(trade) (line 354).
ExecuteAppend ==
    /\ loop_pc = "append"
    /\ trades' = Append(trades, TradeRecord(signal_info.type, current_price,
                                            TradeAmount, TradeCost))
    /\ loop_pc' = "log"
    /\ UNCHANGED <<last_action, last_sold_amount, last_sell_price, demo_balance,
                   total_profit, n_buy, n_sell, cur, halt, inflight, bystanders>>

\* The trade is written to the history file (lines 357-358, 370-371,
\* 379-380) and execute_trade returns it.
ExecuteLog ==
    /\ loop_pc = "log"
    /\ loop_pc' = "set_action"
    /\ UNCHANGED <<engine, n_buy, n_sell, cur, halt, inflight, bystanders>>

\* The history file cannot be written.  In real mode the write is inside
\* execute_trade's try and the call returns None (lines 384-388).  In demo
\* mode nothing catches the exception before the `except Exception` around
\* the loop (lines 520-523), which ends it.
ExecuteLogFails ==
    /\ loop_pc = "log"
    /\ IF demo_mode
       THEN /\ loop_pc' = "stopped"
            /\ halt' = [by |-> "fault", at |-> loop_pc]
            /\ UNCHANGED cur
       ELSE /\ Finish("failed")
            /\ UNCHANGED halt
    /\ UNCHANGED <<engine, n_buy, n_sell, inflight, bystanders>>

\* self.last_action = "BUY" / "SELL" after a trade was returned (lines
\* 476-477, 496-497); for a BUY, `if last_sell_price:` (line 480) follows.
SetLastAction ==
    /\ loop_pc = "set_action"
    /\ last_action' = ActionAfter(TRUE, last_action, signal_info.type)
    /\ IF TradeSide = "buy"
       THEN /\ n_buy' = n_buy + 1
            /\ UNCHANGED n_sell
            /\ IF Truthy(last_sell_price)
               THEN loop_pc' = "profit_log" /\ UNCHANGED cur
               ELSE Finish("executed")
       ELSE /\ n_sell' = n_sell + 1
            /\ UNCHANGED <<n_buy, cur>>
            /\ loop_pc' = "set_sold"
    /\ UNCHANGED <<last_sold_amount, last_sell_price, demo_balance, trades, total_profit,
                   halt, inflight, bystanders>>

\* self.last_sold_amount = sell_amount; last_sell_price = current_price
\* (lines 498-499).
SetSold ==
    /\ loop_pc = "set_sold"
    /\ last_sold_amount' = TradeAmount
    /\ last_sell_price' = current_price
    /\ Finish("executed")
    /\ UNCHANGED <<last_action, demo_balance, trades, total_profit, n_buy, n_sell,
                   halt, inflight, bystanders>>

\* calculate_profit writes the cycle to the history file (lines 413-419).
ProfitLog ==
    /\ loop_pc = "profit_log"
    /\ loop_pc' = "profit_add"
    /\ UNCHANGED <<engine, n_buy, n_sell, cur, halt, inflight, bystanders>>

\* The history file cannot be written: calculate_profit has no handler, and
\* the `except Exception` around the loop ends it (lines 520-523).
ProfitLogFails ==
    /\ loop_pc = "profit_log"
    /\ loop_pc' = "stopped"
    /\ halt' = [by |-> "fault", at |-> loop_pc]
    /\ UNCHANGED <<engine, n_buy, n_sell, cur, inflight, bystanders>>

\* self.total_profit += profit (line 421).
ProfitAdd ==
    /\ loop_pc = "profit_add"
    /\ total_profit' = ProfitAfterBuy(total_profit, last_sell_price, current_price,
                                      TradeAmount)
    /\ Finish("executed")
    /\ UNCHANGED <<last_action, last_sold_amount, last_sell_price, demo_balance, trades,
                   n_buy, n_sell, halt, inflight, bystanders>>

\* KeyboardInterrupt in the main thread, wherever the loop is: it is
\* caught outside the `while` (lines 518-519), so the loop ends there.
Interrupt ==
    /\ loop_pc # "stopped"
    /\ loop_pc' = "stopped"
    /\ halt' = [by |-> "interrupt", at |-> loop_pc]
    /\ UNCHANGED <<engine, n_buy, n_sell, cur, inflight, bystanders>>

\* The webhook server is a daemon thread (line 535): it serves requests
\* until run() returns, which it does when the loop has ended.
FaultWebhook ==
    /\ loop_pc # "stopped"
    /\ \E req \in FaultRequests : Webhook(req)

FaultNext ==
    \/ FaultWebhook
    \/ LoopGet
    \/ LoopFetchPrice
    \/ LoopFetchBalances
    \/ LoopDecide
    \/ ExecuteEnter
    \/ ExecuteDebit
    \/ ExecuteCredit
    \/ ExecuteAppend
    \/ ExecuteLog
    \/ ExecuteLogFails
    \/ SetLastAction
    \/ SetSold
    \/ ProfitLog
    \/ ProfitLogFails
    \/ ProfitAdd
    \/ LoopTaskDone
    \/ Interrupt

FaultSpec == Init /\ [][FaultNext]_vars

(***************************************************************************)
(* GET /status and GET / served by the webhook server's threads while the  *)
(* trading loop runs: status() reads the engine one attribute at a time,   *)
(* with no lock, and the loop can take steps between any two reads.        *)
(***************************************************************************)
\* status() begins with get_current_price() (line 197), which asks the
\* exchange and reads nothing of the engine.
StatusBegin ==
    /\ status_info.pc \in {"idle", "done"}
    /\ status_info' = [NoStatus EXCEPT !.pc = "base"]
    /\ status_seen' = {StatusView}
    /\ UNCHANGED <<demo_mode, engine, queue, locals, webhook_reply, history, halt, call>>

\* base_balance = self.get_balance(self.base_currency) (line 198).
StatusReadBase ==
    /\ status_info.pc = "base"
    /\ \E b \in BalancesRead :
          status_info' = [status_info EXCEPT !.pc = "quote", !.base_balance = b.base]
    /\ UNCHANGED <<demo_mode, engine, queue, locals, webhook_reply, history, halt, call,
                   status_seen>>

\* quote_balance = self.get_balance(self.quote_currency) (line 199).
StatusReadQuote ==
    /\ status_info.pc = "quote"
    /\ \E b \in BalancesRead :
          status_info' = [status_info EXCEPT !.pc = "last_action",
                                             !.quote_balance = b.quote]
    /\ UNCHANGED <<demo_mode, engine, queue, locals, webhook_reply, history, halt, call,
                   status_seen>>

\* 'last_action': self.last_action (line 205).
StatusReadLastAction ==
    /\ status_info.pc = "last_action"
    /\ status_info' = [status_info EXCEPT !.pc = "total_profit",
                                          !.last_action = last_action]
    /\ UNCHANGED <<demo_mode, engine, queue, locals, webhook_reply, history, halt, call,
                   status_seen>>

\* 'total_profit': self.total_profit (line 208), and the reply is sent.
StatusReadProfit ==
    /\ status_info.pc = "total_profit"
    /\ status_info' = [status_info EXCEPT !.pc = "done", !.total_profit = total_profit]
    /\ UNCHANGED <<demo_mode, engine, queue, locals, webhook_reply, history, halt, call,
                   status_seen>>

\* GET / (lines 191-193) answers with a fixed text.
Index == UNCHANGED vars

StatusNext ==
    \/ \E req \in FaultRequests : Webhook(req)
    \/ StatusBegin
    \/ StatusReadBase
    \/ StatusReadQuote
    \/ StatusReadLastAction
    \/ StatusReadProfit
    \/ Index
    \/ LoopGet
    \/ LoopFetchPrice
    \/ LoopFetchBalances
    \/ LoopTrade
    \/ LoopTaskDone

\* The bot as __main__ configures it (DEMO_MODE = True, line 566): the
\* balances /status reports are then the engine's own demo_balance.
StatusInit == Init /\ demo_mode = TRUE

StatusSpec == StatusInit /\ [][StatusNext]_vars

(***************************************************************************)
(* execute_trade on its own, in demo mode: called with any side, amount    *)
(* and price on any balances, as many as MaxCalls times in a row.          *)
(***************************************************************************)
LedgerBases == {0, 500, 1000}
LedgerQuotes == {0, 20000, 50000}
LedgerAmounts == {0, 500, 1000}

LedgerInit ==
    /\ demo_mode = TRUE
    /\ demo_balance \in [base : LedgerBases, quote : LedgerQuotes]
    /\ trades = <<>>
    /\ call = NoCall
    /\ signal_queue = <<>>
    /\ unfinished_tasks = 0
    /\ last_action = BUY
    /\ last_sold_amount = None
    /\ total_profit = 0
    /\ loop_pc = "get"
    /\ signal_info = NoSignal
    /\ current_price = None
    /\ base_balance = None
    /\ quote_balance = None
    /\ last_sell_price = None
    /\ webhook_reply = [data |-> TextData(<<>>), signal_type |-> <<>>, success |-> FALSE]
    /\ n_put = 0
    /\ n_got = 0
    /\ n_finished = 0
    /\ n_buy = 0
    /\ n_sell = 0
    /\ cur = [type |-> <<>>, la |-> <<>>, outcome |-> "none", amount |-> None,
              pre |-> EngineState]
    /\ prev = NoOutcome
    /\ halt = NoHalt
    /\ status_info = NoStatus
    /\ status_seen = {}

\* One call execute_trade(side, amount, price) in demo mode (lines 312-360).
ExecuteTradeCall ==
    /\ call.n < MaxCalls
    /\ \E side \in {"buy", "sell"}, amount \in LedgerAmounts, price \in Prices :
          LET r == ExecuteTrade(TRUE, demo_balance, side, amount, price, TRUE)
          IN  /\ demo_balance' = r.balance
              /\ trades' = trades \o r.trade
              /\ call' = [side |-> side, amount |-> amount, price |-> price,
                          ok |-> r.ok, balance |-> demo_balance, trades |-> trades,
                          n |-> call.n + 1]
    /\ UNCHANGED <<demo_mode, last_action, last_sold_amount, last_sell_price,
                   total_profit, queue, locals, webhook_reply, history, halt,
                   status_info, status_seen>>

LedgerNext == ExecuteTradeCall

LedgerSpec == LedgerInit /\ [][LedgerNext]_vars

(***************************************************************************)
(* The ledger in floating point.  The specifications above take sums and   *)
(* products as exact; Python computes them in binary floating point, where *)
(* each result is rounded to the significand (53 bits in the code,         *)
(* MantissaBits here) to nearest, ties to even.  This one runs the demo    *)
(* ledger through whole SELL / BUY cycles with the rounding kept, an       *)
(* actionable signal per step, at prices that are all positive.            *)
(***************************************************************************)
RECURSIVE BitLength(_)
\* The number of binary digits of m >= 0.
BitLength(m) == IF m = 0 THEN 0 ELSE 1 + BitLength(m \div 2)

RECURSIVE Pow2(_)
Pow2(e) == IF e = 0 THEN 1 ELSE 2 * Pow2(e - 1)

\* x rounded to MantissaBits significant binary digits, to nearest, ties
\* to even; amounts are counted in their smallest unit.
RoundFloat(x) ==
    LET m == Abs(x)
        e == BitLength(m) - MantissaBits
    IN  IF e <= 0
        THEN x
        ELSE LET unit == Pow2(e)
                 q == m \div unit
                 r == m % unit
                 up == 2 * r > unit \/ (2 * r = unit /\ q % 2 = 1)
                 rounded == (IF up THEN q + 1 ELSE q) * unit
             IN  IF x < 0 THEN 0 - rounded ELSE rounded

\* Python's float +, - and *.
FloatAdd(a, b) == RoundFloat(a + b)
FloatSub(a, b) == RoundFloat(a - b)
FloatMul(a, b) == RoundFloat(a * b)

\* ticker['last'] values of this specification (hundredths), all positive.
CyclePrices == {40, 45, 50, 55}

\* A SELL signal after a BUY, in demo mode, from get to task_done: lines
\* 492-499 with execute_trade's sell (lines 335-354).
CycleSell ==
    /\ Len(trades) < MaxCycleTrades
    /\ SellAfterBuy(SELL, last_action)
    /\ \E price \in CyclePrices :
          LET sell_amount == SellAmount(FIXED_AMOUNT, demo_balance.base)
              revenue == FloatMul(sell_amount, price)
          IN  /\ SellPossible(sell_amount)
              /\ ~(sell_amount > demo_balance.base)
              /\ demo_balance' =
                    [base |-> FloatSub(demo_balance.base, sell_amount),
                     quote |-> FloatAdd(demo_balance.quote, revenue)]
              /\ trades' = Append(trades, TradeRecord(SELL, price, sell_amount, revenue))
              /\ last_action' = SELL
              /\ last_sold_amount' = sell_amount
              /\ last_sell_price' = price
              /\ n_sell' = n_sell + 1
    /\ UNCHANGED <<demo_mode, total_profit, queue, locals, webhook_reply, n_got,
                   n_finished, n_buy, cur, prev, aside, status_seen>>

\* A BUY signal after a SELL, in demo mode, from get to task_done: lines
\* 470-481 with execute_trade's buy (lines 315-354) and calculate_profit
\* (lines 403-421).  A buy-back the quote balance does not cover changes
\* nothing.
CycleBuy ==
    /\ Len(trades) < MaxCycleTrades
    /\ BuyAfterSell(BUY, last_action)
    /\ Truthy(last_sold_amount)
    /\ \E price \in CyclePrices :
          LET buy_amount == last_sold_amount
              buy_cost == FloatMul(buy_amount, price)
              sell_revenue == FloatMul(buy_amount, last_sell_price)
              profit == FloatSub(sell_revenue, buy_cost)
          IN  /\ CanAfford(demo_balance.quote, buy_cost)
              /\ ~(buy_cost > demo_balance.quote)
              /\ demo_balance' =
                    [base |-> FloatAdd(demo_balance.base, buy_amount),
                     quote |-> FloatSub(demo_balance.quote, buy_cost)]
              /\ trades' = Append(trades, TradeRecord(BUY, price, buy_amount, buy_cost))
              /\ last_action' = BUY
              /\ total_profit' =
                    IF Truthy(last_sell_price)
                    THEN FloatAdd(total_profit, profit)
                    ELSE total_profit
              /\ n_buy' = n_buy + 1
    /\ UNCHANGED <<demo_mode, last_sold_amount, last_sell_price, queue, locals,
                   webhook_reply, n_got, n_finished, n_sell, cur, prev, aside,
                   status_seen>>

CycleNext == CycleSell \/ CycleBuy

CycleSpec == StatusInit /\ [][CycleNext]_vars

TypeOK ==
    /\ demo_mode \in BOOLEAN
    /\ last_action \in {BUY, SELL}
    /\ loop_pc \in {"get", "price", "balance", "trade", "task_done", "execute", "debit",
                     "credit", "append", "log", "set_action", "set_sold", "profit_log",
                     "profit_add", "stopped"}
    /\ n_put \in 0..MaxSignals
    /\ Len(signal_queue) <= MaxSignals

(***************************************************************************)
(* Properties.                                                             *)
(***************************************************************************)
\* The signal of cur has been processed to its end.
Processed == cur.outcome \notin {"none", "pending"}

\* cur is a duplicate: a BUY taken with last_action BUY, a SELL with SELL.
Duplicate == cur.type \in {BUY, SELL} /\ cur.type = cur.la

\* cur is actionable: BUY taken with last_action SELL, or SELL with BUY.
Actionable ==
    \/ cur.type = BUY /\ cur.la = SELL
    \/ cur.type = SELL /\ cur.la = BUY

\* C1: the numbers of executed BUY and SELL trades never differ by more
\* than 1; a BUY trade executes only for a signal taken with last_action
\* SELL, a SELL trade only for one taken with last_action BUY.
AlternatingInvariant ==
    /\ Abs(n_buy - n_sell) <= 1
    /\ n_buy # cur.pre.n_buy =>
          /\ cur.type = BUY /\ cur.pre.last_action = SELL
          /\ n_buy = cur.pre.n_buy + 1 /\ n_sell = cur.pre.n_sell
    /\ n_sell # cur.pre.n_sell =>
          /\ cur.type = SELL /\ cur.pre.last_action = BUY
          /\ n_sell = cur.pre.n_sell + 1 /\ n_buy = cur.pre.n_buy

\* C1 happens: a SELL, a BUY and a second SELL have been executed.
AlternatingWitness == n_sell = 2 /\ n_buy = 1

\* C2: every signal on the queue has type BUY or SELL.
EnqueuedKindIsBuyOrSell ==
    \A i \in 1..Len(signal_queue) : signal_queue[i].type \in {BUY, SELL}

\* C3: signals are processed in the order they were put (the k-th signal
\* taken is the k-th put, and those waiting follow in put order), and a
\* signal is taken only when the processing of the one before has ended.
FifoOneInFlight ==
    /\ n_got - n_finished \in {0, 1}
    /\ (n_got - n_finished = 1) <=> (signal_info # NoSignal)
    /\ (loop_pc = "get") <=> (signal_info = NoSignal)
    /\ signal_info # NoSignal => signal_info.seq = n_got
    /\ \A i \in 1..Len(signal_queue) : signal_queue[i].seq = n_got + i

\* C3 happens: the second signal is being traded while the third, put
\* meanwhile, waits on the queue.
FifoWitness ==
    /\ loop_pc = "trade"
    /\ signal_info.seq = 2
    /\ n_finished = 1
    /\ Len(signal_queue) = 1

\* C4: every signal put is consumed exactly once: at any time it is either
\* on the queue once and not yet taken, or taken and not on the queue, with
\* no more processings ended than signals taken; and under fairness of the
\* trading loop every signal put is eventually taken.
ConsumedExactlyOnce ==
    /\ [](\A k \in 1..n_put :
             Cardinality({i \in 1..Len(signal_queue) : signal_queue[i].seq = k})
                 = (IF k <= n_got THEN 0 ELSE 1))
    /\ [](n_finished <= n_got /\ n_got <= n_put)
    /\ [][n_got' \in {n_got, n_got + 1}]_vars
    /\ \A k \in 1..MaxSignals : (n_put >= k) ~> (n_got >= k)

\* C4 happens: three signals were put and all three processed, the one
\* before the last dropped for want of a price.
ConsumedWitness ==
    /\ n_put = 3
    /\ n_finished = 3
    /\ signal_queue = <<>>
    /\ prev.outcome = "no_price"
    /\ cur.outcome = "executed"

\* Two consecutive BUY signals, the first taken with last_action SELL,
\* both processed to the end.
TwoBuysAfterSell ==
    /\ prev.type = BUY /\ prev.la = SELL
    /\ cur.type = BUY
    /\ Processed

ExecutedOfTwo ==
    (IF prev.outcome = "executed" THEN 1 ELSE 0) + (IF cur.outcome = "executed" THEN 1 ELSE 0)

\* C5 as stated: a duplicate signal leaves the engine and ledger state as
\* it was when the signal was taken, and two consecutive BUY signals
\* arriving while last_action is SELL produce exactly one executed trade.
DuplicateIgnoredExactlyOne ==
    /\ Duplicate => EngineState = cur.pre
    /\ TwoBuysAfterSell => ExecutedOfTwo = 1

\* C5 as amended: a duplicate signal leaves the engine and ledger state as
\* it was when the signal was taken; two consecutive BUY signals arriving
\* while last_action is SELL produce at most one executed trade, and
\* exactly one (the first) when the first BUY's trade executes.
DuplicateIgnored ==
    /\ Duplicate => EngineState = cur.pre
    /\ TwoBuysAfterSell => ExecutedOfTwo <= 1
    /\ TwoBuysAfterSell /\ prev.outcome = "executed" => ExecutedOfTwo = 1

\* C5 happens: a BUY executed after a SELL, and the BUY after it, a
\* duplicate, has been processed.
DuplicateWitness ==
    /\ TwoBuysAfterSell
    /\ prev.outcome = "executed"
    /\ Duplicate
    /\ loop_pc = "task_done"

\* C6: an actionable signal whose trade is not executed (quote balance
\* below the buy-back cost, nothing to sell, order rejected by the
\* exchange) leaves the engine and ledger state as it was when the signal
\* was taken.
SkippedTradeChangesNothing ==
    Actionable /\ cur.outcome \in {"insufficient", "failed", "no_amount"} =>
        EngineState = cur.pre

\* C6 happens: in real mode an order was rejected, and the next actionable
\* signal was skipped for want of balance.
SkippedTradeWitness ==
    /\ ~demo_mode
    /\ prev.outcome = "failed"
    /\ Actionable
    /\ cur.outcome = "insufficient"
    /\ loop_pc = "task_done"

\* C7: in demo mode both balances are never negative.
DemoBalancesNonNegative ==
    demo_mode => demo_balance.base >= 0 /\ demo_balance.quote >= 0

\* C7 happens: in demo mode a SELL, a BUY and a second SELL were executed,
\* one of them at price 0.
DemoBalancesWitness ==
    /\ demo_mode
    /\ n_sell = 2
    /\ n_buy = 1
    /\ \E i \in 1..Len(trades) : trades[i].price = 0

\* C8: the BUY executed after a SELL of amount A at price P1 raises
\* total_profit by exactly A * (P1 - P2), P2 being the BUY's price, and no
\* other processing of a signal changes total_profit.  (A and P1 are what
\* the SELL recorded: last_sold_amount and last_sell_price.)
ProfitRoundTrip ==
    IF cur.type = BUY /\ cur.outcome = "executed"
    THEN loop_pc = "task_done" =>
             total_profit = cur.pre.total_profit
                 + cur.pre.last_sold_amount * (cur.pre.last_sell_price - current_price)
    ELSE total_profit = cur.pre.total_profit

\* C9: in demo mode, from balances {base 1000, quote 0} and last_action
\* BUY, a SELL at 0.50 gives {base 0, quote 500}, last_action SELL, sold
\* amount 1000 and sell price 0.50; then a BUY at 0.40 gives
\* {base 1000, quote 100}, last_action BUY and total_profit raised by 100.
ScenarioSellThenBuy ==
    demo_mode /\ loop_pc = "task_done" =>
        /\ ( /\ cur.type = SELL
             /\ cur.pre.last_action = BUY
             /\ cur.pre.balance = [base |-> 1000, quote |-> 0]
             /\ current_price = 50 )
           => /\ demo_balance = [base |-> 0, quote |-> 50000]
              /\ last_action = SELL
              /\ last_sold_amount = 1000
              /\ last_sell_price = 50
        /\ ( /\ cur.type = BUY
             /\ cur.pre.last_action = SELL
             /\ cur.pre.balance = [base |-> 0, quote |-> 50000]
             /\ cur.pre.last_sold_amount = 1000
             /\ cur.pre.last_sell_price = 50
             /\ current_price = 40 )
           => /\ demo_balance = [base |-> 1000, quote |-> 10000]
              /\ last_action = BUY
              /\ total_profit = cur.pre.total_profit + 10000

\* C9 happens: the SELL at 0.50 was the first trade, and the BUY at 0.40
\* that follows it has just been processed.
ScenarioWitness ==
    /\ demo_mode
    /\ loop_pc = "task_done"
    /\ cur.type = BUY
    /\ current_price = 40
    /\ cur.pre.balance = [base |-> 0, quote |-> 50000]
    /\ cur.pre.last_sell_price = 50
    /\ cur.pre.n_sell = 1
    /\ cur.pre.total_profit = 0
    /\ trades # <<>>
    /\ trades[1] = TradeRecord(SELL, 50, 1000, 50000)

\* Payloads that all encode the logical action BUY, and SELL.
BuyVariants ==
    { DictData([action |-> StrV(<<"b", "u", "y">>)]),
      DictData([action |-> StrV(<<"l", "o", "n", "g">>)]),
      DictData([signal |-> StrV(<<"l", "o", "n", "g">>)]),
      TextData(BUY),
      TextData(<<"l", "o", "n", "g">>) }

SellVariants ==
    { DictData([action |-> StrV(SELL)]),
      DictData([signal |-> StrV(<<"s", "e", "l", "l">>)]),
      TextData(<<"s", "e", "l", "l">>),
      TextData(<<"S", "h", "o", "r", "t">>) }

\* C10: every payload variant of the same logical action yields the same
\* signal type: BUY for the BUY and LONG variants, SELL for SELL and SHORT.
VariantsYieldSameKind ==
    /\ webhook_reply.data \in BuyVariants =>
          webhook_reply.success /\ webhook_reply.signal_type = BUY
    /\ webhook_reply.data \in SellVariants =>
          webhook_reply.success /\ webhook_reply.signal_type = SELL

\* C11: a webhook request is answered success: True exactly when it put one
\* signal (of the type it extracted) on the queue; a request answered
\* success: False leaves the queue as it was; and the answer is decided by
\* the payload alone (a signal type was extracted or not), whatever the
\* state of the engine.
AckIffEnqueued ==
    /\ [](webhook_reply.success <=> webhook_reply.signal_type # <<>>)
    /\ [][ /\ Len(signal_queue') > Len(signal_queue) =>
               /\ webhook_reply'.success
               /\ signal_queue' =
                      Append(signal_queue,
                             [type |-> webhook_reply'.signal_type, seq |-> n_put + 1])
           /\ webhook_reply' # webhook_reply =>
               IF webhook_reply'.success
               THEN Len(signal_queue') = Len(signal_queue) + 1
               ELSE signal_queue' = signal_queue ]_vars

\* C11 happens: after two signals were put and a SELL executed, a request
\* that does not parse has been answered success: False.
AckWitness ==
    /\ n_put = 2
    /\ last_action = SELL
    /\ ~webhook_reply.success
    /\ webhook_reply.data = TextData(<<"h", "e", "l", "l", "o">>)

\* C12: a signal whose price fetch failed is dropped: it is neither kept nor
\* put back on the queue, no trade is attempted with it (the loop is back
\* at get without reading balances or trading), and last_action,
\* last_sold_amount, last_sell_price, the balances, trades and total_profit
\* are what they were when it was taken off the queue.
NoPriceDiscards ==
    /\ loop_pc \in {"balance", "trade", "task_done"} => current_price # None
    /\ Processed /\ current_price = None => cur.outcome = "no_price"
    /\ cur.outcome = "no_price" =>
          /\ loop_pc = "get"
          /\ signal_info = NoSignal
          /\ \A i \in DOMAIN signal_queue : signal_queue[i].seq > n_got
          /\ EngineState = cur.pre

\* C12 happens: after an executed SELL, a BUY found no price and was dropped
\* while another signal waits on the queue.
NoPriceWitness ==
    /\ cur.outcome = "no_price"
    /\ cur.type = BUY
    /\ last_action = SELL
    /\ prev.outcome = "executed"
    /\ signal_queue # <<>>

\* A signal that met a failure of the exchange: no price, an order that
\* was refused, or (real mode) a balance read as 0, which is what
\* get_balance answers when the fetch fails.
ExchangeFailure ==
    \/ cur.outcome \in {"no_price", "failed"}
    \/ /\ ~demo_mode
       /\ Processed
       /\ cur.outcome # "no_price"
       /\ base_balance = 0 \/ quote_balance = 0

\* C13: a failed price fetch, balance fetch or order never ends the trading
\* loop, and a signal put after such a failure is still processed.
FailuresDoNotStopLoop ==
    /\ [](loop_pc # "stopped")
    /\ \A j \in 1..MaxSignals :
          (ExchangeFailure /\ n_got = j /\ n_put > j) ~> (n_finished > j)

\* C13 happens: the signal before this one met a failure of the exchange,
\* and this one was executed.
FailuresWitness ==
    /\ prev.outcome \in {"no_price", "failed"}
    /\ cur.outcome = "executed"
    /\ loop_pc = "get"

\* C18: after a BUY that executed, last_sold_amount and last_sell_price are
\* cleared: whenever last_action is BUY neither holds a value.
BuyBackClearsSale ==
    last_action = BUY => last_sold_amount = None /\ last_sell_price = None

\* The last element of trades, in demo mode, is the trade of cur.
LastTradeIs(side, amount, price) ==
    demo_mode =>
        /\ Len(trades) = Len(cur.pre.trades) + 1
        /\ trades[Len(trades)].side = side
        /\ trades[Len(trades)].amount = amount
        /\ trades[Len(trades)].price = price

\* C19: an executed SELL sells min(fixed_amount, base balance read for the
\* signal) and leaves that amount in last_sold_amount and the price in
\* last_sell_price; an executed BUY buys the amount of the last executed
\* SELL.
TradeSizing ==
    cur.outcome = "executed" =>
        IF cur.type = SELL
        THEN /\ cur.amount = Min(FIXED_AMOUNT, base_balance)
             /\ last_sold_amount = cur.amount
             /\ last_sell_price = current_price
             /\ LastTradeIs(SELL, cur.amount, current_price)
             /\ demo_mode => demo_balance.base = cur.pre.balance.base - cur.amount
        ELSE /\ cur.amount = cur.pre.last_sold_amount
             /\ last_sold_amount = cur.amount
             /\ LastTradeIs(BUY, cur.amount, current_price)
             /\ demo_mode => demo_balance.base = cur.pre.balance.base + cur.amount

\* C19 happens: a SELL of less than the fixed amount (the base balance read
\* was smaller) was followed by an executed BUY of that same amount.
TradeSizingWitness ==
    /\ cur.outcome = "executed"
    /\ cur.type = BUY
    /\ cur.amount = 500
    /\ prev.outcome = "executed"

\* C14: an exception raised while a signal is processed (after it was taken
\* off the queue) does not end the trading loop.
FaultKeepsLoopRunning ==
    halt.by = "fault" /\ halt.at # "get" => loop_pc # "stopped"

\* The engine holds part of the effect of the signal of cur: something has
\* changed since it was taken off the queue, and its processing has not
\* reached its end.
PartiallyApplied == EngineState # cur.pre /\ cur.outcome # "executed"

\* C15: when a shutdown ends the trading loop no signal is in flight, and
\* the engine does not hold a trade in part.
ShutdownCompletesInFlight ==
    halt.by = "interrupt" => signal_info = NoSignal /\ ~PartiallyApplied

\* What the /status call that has ended reported of the engine.
StatusReported ==
    [last_action |-> status_info.last_action, base_balance |-> status_info.base_balance,
     quote_balance |-> status_info.quote_balance,
     total_profit |-> status_info.total_profit]

\* C16: what a /status call reports (last action, base balance, quote
\* balance, total profit) is what the engine held at one point of the call,
\* between two trades; in demo mode, where the balances are the engine's.
StatusReadIsSnapshot ==
    status_info.pc = "done" /\ demo_mode => StatusReported \in status_seen

\* C17: a webhook call changes nothing but the queue (one signal appended,
\* or nothing), a step of /status changes nothing but the reply it is
\* building, and last_action, last_sold_amount, last_sell_price, the
\* balances, trades and total_profit change only in the trading step of the
\* loop.
ReceiverWritesNothing ==
    [][ /\ engine' # engine => loop_pc = "trade" /\ loop_pc' = "task_done"
        /\ webhook_reply' # webhook_reply \/ n_put' # n_put =>
              /\ UNCHANGED <<demo_mode, engine, locals, history, status_info>>
              /\ \/ UNCHANGED queue
                 \/ /\ Len(signal_queue') = Len(signal_queue) + 1
                    /\ SubSeq(signal_queue', 1, Len(signal_queue)) = signal_queue
        /\ status_info' # status_info =>
              UNCHANGED <<demo_mode, engine, queue, locals, webhook_reply, history>>
      ]_vars

\* C17 happens: a /status call has ended and a webhook call has put a
\* signal after the loop executed a trade.
ReceiverWitness ==
    /\ status_info.pc = "done"
    /\ status_info.last_action = SELL
    /\ Len(trades) = 1
    /\ signal_queue # <<>>
    /\ webhook_reply.success

\* C20: in demo mode a call of execute_trade takes full effect or none.  A
\* buy of amount a at price p whose cost a*p exceeds the quote balance
\* returns None and leaves balances and trades as they were; any other buy
\* debits quote by a*p, credits base by a and appends the trade.  A sell of
\* more than the base balance returns None and changes nothing; any other
\* sell debits base by a, credits quote by a*p and appends the trade.
ExecuteTradeAllOrNothing ==
    call.side # "none" =>
        LET a == call.amount
            p == call.price
            pre == call.balance
            rejected == IF call.side = "buy" THEN a * p > pre.quote ELSE a > pre.base
        IN  IF rejected
            THEN /\ ~call.ok
                 /\ demo_balance = pre
                 /\ trades = call.trades
            ELSE /\ call.ok
                 /\ demo_balance =
                       IF call.side = "buy"
                       THEN [base |-> pre.base + a, quote |-> pre.quote - a * p]
                       ELSE [base |-> pre.base - a, quote |-> pre.quote + a * p]
                 /\ Len(trades) = Len(call.trades) + 1
                 /\ SubSeq(trades, 1, Len(call.trades)) = call.trades
                 /\ trades[Len(trades)].amount = a
                 /\ trades[Len(trades)].price = p
                 /\ trades[Len(trades)].cost = a * p

\* C20 happens: after a sell took effect, a buy that costs more than the
\* quote balance was rejected.
ExecuteTradeWitness ==
    /\ call.side = "buy"
    /\ ~call.ok
    /\ call.amount * call.price > call.balance.quote
    /\ Len(trades) = 1
    /\ trades[1].side = SELL

\* C21: in both modes trades holds one record per executed trade and none
\* for a rejected or failed one, and no record is ever changed or removed:
\* the length of trades is the number of executed trades.
TradesComplete ==
    /\ Len(trades) = n_buy + n_sell
    /\ Len(trades) >= Len(cur.pre.trades)
    /\ SubSeq(trades, 1, Len(cur.pre.trades)) = cur.pre.trades

\* C24: every signal taken off the queue is marked done once, so with the
\* queue empty and no signal in flight no task is unfinished.
TaskDoneOncePerGet ==
    signal_queue = <<>> /\ signal_info = NoSignal => unfinished_tasks = 0

\* C22: in every state, last_action = SELL implies that last_sold_amount
\* holds a strictly positive amount and that a sell price is recorded; and
\* no BUY after a SELL ever finds no sold amount.
SellImpliesSoldAmount ==
    /\ last_action = SELL =>
          /\ last_sold_amount # None
          /\ last_sold_amount > 0
          /\ last_sell_price # None
    /\ cur.outcome # "no_amount"

\* C22 as the code has it: the implication holds except between the
\* assignment of last_action (line 497) and those of last_sold_amount and
\* last_sell_price (lines 498-499) of an executed SELL, where the loop may
\* also be left for good by a shutdown; no BUY after a SELL ever finds no
\* sold amount.
SellImpliesSoldAmountOutsideUpdate ==
    /\ last_action = SELL /\ loop_pc # "set_sold" /\ halt.at # "set_sold" =>
          /\ last_sold_amount # None
          /\ last_sold_amount > 0
          /\ last_sell_price # None
    /\ cur.outcome # "no_amount"

\* C22 happens: a BUY after a SELL has found the sold amount and is about
\* to call execute_trade with it.
SellImpliesSoldAmountWitness ==
    /\ loop_pc = "execute"
    /\ cur.type = BUY
    /\ last_action = SELL
    /\ cur.amount = last_sold_amount
    /\ cur.amount > 0

\* C23: in demo mode with positive prices, between signals: with
\* last_action = BUY the base balance is the fixed amount and the quote
\* balance is total_profit, with last_action = SELL the base balance is 0,
\* and total_profit is never negative (a buy-back that costs more than the
\* sell revenue plus the profit so far would make it so).
DemoAccountingIdentity ==
    demo_mode /\ (\A i \in DOMAIN trades : trades[i].price > 0) =>
        /\ last_action = BUY =>
              /\ demo_balance.base = FIXED_AMOUNT
              /\ demo_balance.quote = total_profit
        /\ last_action = SELL => demo_balance.base = 0
        /\ total_profit >= 0

====
